---- MODULE Spec2Model ----
(***************************************************************************)
(* Vault note cache of claudesidian_mcp: VaultManager (vault.py) and the   *)
(* index build of SearchEngine (search.py).                                *)
(*                                                                         *)
(* Text is a sequence of one-character strings.  A path is a small         *)
(* integer; PathStr gives its relative path string.  The coroutines of     *)
(* the asyncio event loop are tasks; one action is the code a coroutine    *)
(* runs between two suspension points (await of a thread-pool future).     *)
(***************************************************************************)
EXTENDS Integers, Sequences, FiniteSets, TLC

VARIABLES
    files,          \* the vault directory: path -> [kind, text, mtime]
    now,            \* time.time(), in seconds
    noteCache,      \* self._note_cache: key -> text
    metadataCache,  \* self._metadata_cache: key -> VaultMetadata
    listCache,      \* self._note_list_cache: None or a sequence of VaultNote
    listCacheTime,  \* self._note_list_cache_time
    index,          \* SearchEngine.index: sequence of <<title, content>>
    task,           \* the coroutines of the event loop
    execQueue,      \* work queue of self._executor (FIFO of read jobs)
    execRunning,    \* read jobs running on the worker threads, oldest first
    execDone,       \* read jobs finished, their coroutine not yet resumed
    ret,            \* the call that returned in the last step (NoRet if none)
    maxConc,        \* number of calls the caller keeps in flight at once
    nWrites,        \* number of create/update calls started
    fetchTime,      \* history: key -> time the _note_cache entry was stored
    lastWrite,      \* history: path -> text of the last completed write
    expectAppend    \* history: path -> text the appends so far should give

vars == <<files, now, noteCache, metadataCache, listCache, listCacheTime,
          index, task, execQueue, execRunning, execDone, ret, maxConc,
          nWrites, fetchTime, lastWrite, expectAppend>>

----------------------------------------------------------------------------
(* Bounds of the model *)

MaxTasks == 2
MaxWrites == 2
TickStep == 30
MaxTime == 30
MaxBacklog == 1
MaxOvertake == 0
BulkFiles == 26
SearchFiles == 12
MaxChars == 2
PoolFiles == 4

(* Constants of the program *)

CacheTTL == 30
SemPermits == 50
MaxWorkers == 4

\* Python's None, where a text, a path or a key is expected
None == <<"None">>

\* Python's None, where a VaultNote is expected
NoNote == [none |-> TRUE]

\* no completed write is on record
NoWrite == [op |-> "none"]

\* self._note_list_cache = None
NoList == [set |-> FALSE, notes |-> <<>>]

SomeList(notes) == [set |-> TRUE, notes |-> notes]

NoRet == [op |-> "none"]

----------------------------------------------------------------------------
(* Sequences *)

Range(s) == {s[i] : i \in 1..Len(s)}

Slice(s, a, b) == IF a > b THEN <<>> ELSE SubSeq(s, a, b)

From(s, a) == Slice(s, a, Len(s))

\* s[i:i+len(w)] == w
OccursAt(s, w, i) ==
    /\ i >= 1
    /\ i + Len(w) - 1 <= Len(s)
    /\ \A k \in 1..Len(w) : s[i + k - 1] = w[k]

\* w in s
Contains(s, w) == \E i \in 1..(Len(s) + 1) : OccursAt(s, w, i)

Put(f, k, v) == [x \in (DOMAIN f) \cup {k} |-> IF x = k THEN v ELSE f[x]]

Del(f, k) == [x \in (DOMAIN f) \ {k} |-> f[x]]

Empty == [x \in {} |-> None]

NL == "\n"

Lower(c) ==
    CASE c = "A" -> "a"
      [] c = "B" -> "b"
      [] c = "H" -> "h"
      [] c = "T" -> "t"
      [] OTHER -> c

LowerStr(s) == [i \in 1..Len(s) |-> Lower(s[i])]

----------------------------------------------------------------------------
(* Paths *)

\* the paths of the vault the calls are made on
Paths == {1, 2}

TemplatesDir == <<"t","e","m","p","l","a","t","e","s">>

\* the marker of memory notes, memory.py:145
MemoryDir == <<"m","e","m","o","r","y","/">>

PathStr(p) ==
    CASE p = -3 -> MemoryDir \o <<"b", ".", "m", "d">>
      [] p = -2 -> MemoryDir \o <<"s", "/", "a", ".", "m", "d">>
      [] p = -1 -> MemoryDir \o <<"a", ".", "m", "d">>
      [] p = 0 -> <<"m", "y">> \o TemplatesDir \o <<".", "m", "d">>
      [] p = 1 -> <<"a", ".", "m", "d">>
      [] p = 2 -> <<"b", ".", "m", "d">>
      [] p = 3 -> TemplatesDir \o <<"/", "t", ".", "m", "d">>
      [] OTHER -> <<"n", ToString(p), ".", "m", "d">>

\* self.vault_path / path; vault_path is resolved, hence absolute
Abs(p) == <<"abs", p>>

\* absolute_path.relative_to(self.vault_path), and the path the caller gives
Rel(p) == <<"rel", p>>

LastIndexOf(s, c) ==
    IF \E i \in 1..Len(s) : s[i] = c
    THEN CHOOSE i \in 1..Len(s) : s[i] = c /\ \A j \in (i+1)..Len(s) : s[j] # c
    ELSE 0

\* PurePath.name
PathName(p) == From(PathStr(p), LastIndexOf(PathStr(p), "/") + 1)

\* PurePath.stem
Title(p) ==
    LET name == PathName(p)
        dot == LastIndexOf(name, ".")
    IN  IF dot > 1 THEN Slice(name, 1, dot - 1) ELSE name

----------------------------------------------------------------------------
(* Metadata extraction: VaultManager._get_metadata *)

TagChars == {"a", "b", "c", "h", "k", "t", "v", "x", "A", "B", "H", "T",
             "0", "1", "2", "_", "-"}

Whitespace == {" ", NL, "\t"}

\* end of the maximal run of characters of set cs that starts at i (i-1 if none)
RunEnd(s, i, cs) ==
    IF i > Len(s) \/ s[i] \notin cs THEN i - 1
    ELSE CHOOSE e \in i..Len(s) :
            /\ \A k \in i..e : s[k] \in cs
            /\ (e = Len(s) \/ s[e + 1] \notin cs)

\* set(self._tag_pattern.findall(content)), pattern #([a-zA-Z0-9_-]+)
ExtractTags(s) ==
    {Slice(s, i + 1, RunEnd(s, i + 1, TagChars)) :
        i \in {k \in 1..(Len(s) - 1) : s[k] = "#" /\ s[k + 1] \in TagChars}}

\* position of the "]]" that closes a link opened at i, 0 if there is none
LinkClose(s, i) ==
    LET ok(j) == /\ OccursAt(s, <<"]", "]">>, j)
                 /\ \A k \in (i + 2)..(j - 1) : s[k] # NL
        cands == {j \in (i + 2)..Len(s) : ok(j)}
    IN  IF OccursAt(s, <<"[", "[">>, i) /\ cands # {}
        THEN CHOOSE j \in cands : \A k \in cands : j <= k
        ELSE 0

RECURSIVE FindLinks(_, _)
\* self._link_pattern.findall(content) from position i, pattern \[\[(.*?)\]\]
FindLinks(s, i) ==
    LET starts == {k \in i..Len(s) : LinkClose(s, k) # 0}
    IN  IF starts = {} THEN {}
        ELSE LET k == CHOOSE a \in starts : \A b \in starts : a <= b
                 j == LinkClose(s, k)
             IN  {Slice(s, k + 2, j - 1)} \cup FindLinks(s, j + 2)

ExtractLinks(s) == FindLinks(s, 1)

Fence == <<"-", "-", "-">>

\* self._yaml_pattern.match(content), pattern ^---\n(.*?)\n--- with DOTALL:
\* the position of the closing "\n---", 0 when there is no match
YamlClose(s) ==
    LET cands == {j \in 5..Len(s) : OccursAt(s, <<NL>> \o Fence, j)}
    IN  IF OccursAt(s, Fence \o <<NL>>, 1) /\ cands # {}
        THEN CHOOSE j \in cands : \A k \in cands : j <= k
        ELSE 0

\* yaml_match.group(1)
YamlBlock(s) == Slice(s, 5, YamlClose(s) - 1)

RECURSIVE SplitLines(_)
SplitLines(s) ==
    IF \E i \in 1..Len(s) : s[i] = NL
    THEN LET i == CHOOSE k \in 1..Len(s) : s[k] = NL /\ \A m \in 1..(k-1) : s[m] # NL
         IN  <<Slice(s, 1, i - 1)>> \o SplitLines(From(s, i + 1))
    ELSE <<s>>

IsBlank(l) == \A i \in 1..Len(l) : l[i] \in Whitespace

\* a line "key: value" or "key:" with a plain key
IsMappingLine(l) ==
    \E i \in 2..Len(l) :
        /\ l[i] = ":"
        /\ \A k \in 1..(i - 1) : l[k] \notin {":", " "}
        /\ (i = Len(l) \/ l[i + 1] = " ")
        /\ \A k \in (i + 1)..Len(l) : l[k] # ":"

MappingPair(l) ==
    LET i == CHOOSE k \in 1..Len(l) : l[k] = ":"
    IN  <<Slice(l, 1, i - 1), From(l, i + 2)>>

\* yaml.safe_load(yaml_content), for block-style documents: a mapping when
\* every line is "key: value", a scalar or None when no line has a colon,
\* a YAMLError otherwise
YamlLoad(s) ==
    LET lines == SplitLines(s)
        used == {i \in 1..Len(lines) : ~IsBlank(lines[i])}
    IN  IF used = {} THEN [kind |-> "none"]
        ELSE IF \A i \in used : IsMappingLine(lines[i])
        THEN [kind |-> "dict", items |-> {MappingPair(lines[i]) : i \in used}]
        ELSE IF \A i \in used : ~Contains(lines[i], <<":">>)
        THEN [kind |-> "scalar"]
        ELSE [kind |-> "error"]

EmptyDict == [tag |-> "dict", items |-> {}]

\* vault.py:305-319
ParseFrontmatter(content) ==
    IF YamlClose(content) = 0 THEN EmptyDict
    ELSE LET block == YamlBlock(content)
             parsed == YamlLoad(block)
         IN  IF Contains(block, <<"{", "{">>) \/ Contains(block, <<"{", "%">>)
             THEN [tag |-> "template"]
             ELSE IF parsed.kind = "dict"
             THEN [tag |-> "dict", items |-> parsed.items]
             ELSE IF parsed.kind = "error"
             THEN [tag |-> "raw", text |-> block]
             ELSE EmptyDict

\* vault.py:301-332: the VaultMetadata built from a stat result and the content
ExtractMetadata(st, content) ==
    [created |-> st.mtime, modified |-> st.mtime,
     tags |-> ExtractTags(content), links |-> ExtractLinks(content),
     backlinks |-> {}, yaml_frontmatter |-> ParseFrontmatter(content)]

\* VaultNote(path=path, title=path.stem, content=content, metadata=metadata)
MkNote(p, content, md) ==
    [path |-> Rel(p), title |-> Title(p), content |-> content, metadata |-> md]

----------------------------------------------------------------------------
(* The new content of update_note and create_note *)

\* heading.replace('"', '\\"')
RECURSIVE EscapeQuotes(_)
EscapeQuotes(h) ==
    IF h = <<>> THEN <<>>
    ELSE (IF Head(h) = "\"" THEN <<"\\", "\"">> ELSE <<Head(h)>>)
         \o EscapeQuotes(Tail(h))

\* the positions k at which the heading text of a match that starts at i
\* begins: #+ then \s* then the text, compared ignoring case, then .*\n
HeadingTextAt(s, h, i) ==
    {k \in (i + 1)..(Len(s) + 1) :
        /\ \E j \in (i + 1)..k :
              /\ \A m \in i..(j - 1) : s[m] = "#"
              /\ \A m \in j..(k - 1) : s[m] \in Whitespace
        /\ OccursAt(LowerStr(s), LowerStr(h), k)
        /\ \E n \in (k + Len(h))..Len(s) : s[n] = NL}

\* match.end() of re.search(pattern, existing_content, re.IGNORECASE), counted
\* in characters from the start; 0 when there is no match
HeadingMatchEnd(s, h) ==
    LET starts == {i \in 1..Len(s) : HeadingTextAt(s, h, i) # {}}
    IN  IF starts = {} THEN 0
        ELSE LET i == CHOOSE a \in starts : \A b \in starts : a <= b
                 ks == HeadingTextAt(s, h, i)
                 k == CHOOSE a \in ks : \A b \in ks : a >= b
             IN  CHOOSE n \in (k + Len(h))..Len(s) :
                    s[n] = NL /\ \A m \in (k + Len(h))..(n - 1) : s[m] # NL

\* vault.py:185-202
NewContent(existing, content, mode, heading) ==
    IF heading # None /\ heading # <<>>
    THEN LET pos == HeadingMatchEnd(existing, EscapeQuotes(heading))
         IN  IF pos > 0
             THEN Slice(existing, 1, pos) \o <<NL>> \o content \o <<NL>>
                  \o From(existing, pos + 1)
             ELSE existing \o <<NL, NL, "#", "#", " ">> \o heading \o <<NL>>
                  \o content \o <<NL>>
    ELSE IF mode = "append" THEN existing \o <<NL>> \o content
    ELSE IF mode = "prepend" THEN content \o <<NL>> \o existing
    ELSE content

RECURSIVE YamlDump(_)
\* yaml.dump(metadata, default_flow_style=False) of a mapping of plain
\* scalars, given as a sequence of <<key, value>> in key order
YamlDump(meta) ==
    IF meta = <<>> THEN <<>>
    ELSE Head(meta)[1] \o <<":", " ">> \o Head(meta)[2] \o <<NL>>
         \o YamlDump(Tail(meta))

\* vault.py:141-145
FullContent(content, meta) ==
    IF meta # None /\ meta # <<>>
    THEN Fence \o <<NL>> \o YamlDump(meta) \o Fence \o <<NL>> \o content
    ELSE content

----------------------------------------------------------------------------
(* SearchEngine._should_skip_file *)

TemplateDirs == {TemplatesDir}

ShouldSkipFile(p) ==
    \E tdir \in TemplateDirs : Contains(LowerStr(PathStr(p)), LowerStr(tdir))

----------------------------------------------------------------------------
(* State *)

Tasks == 1..MaxTasks

Idle ==
    [op |-> "idle", pc |-> "idle", path |-> 0, content |-> <<>>,
     mode |-> "append", heading |-> None, newc |-> <<>>, wok |-> TRUE,
     md_files |-> <<>>, child |-> <<>>, res |-> <<>>, reads |-> 0,
     snap |-> <<>>, query |-> <<>>, threshold |-> 0]

MissingFile == [kind |-> "missing", text |-> <<>>, mtime |-> 0]

BadFile == [kind |-> "bad", text |-> <<>>, mtime |-> 0]

OkFile(text, t) == [kind |-> "ok", text |-> text, mtime |-> t]

\* absolute_path.exists() (and is_file())
PathExists(p) == files[p].kind # "missing"

\* path.read_text(encoding='utf-8') inside the try of _read_file
ReadText(p) == IF files[p].kind = "ok" THEN files[p].text ELSE None

Active == {t \in Tasks : task[t].op # "idle"}

\* a new call is taken by the lowest free coroutine slot
CanStart(t) ==
    /\ task[t].op = "idle"
    /\ Cardinality(Active) < maxConc
    /\ \A u \in Tasks : u < t => task[u].op # "idle"

\* the write a reader that started with snapshot snap must see for path p:
\* the last completed write, if no write to p happened since
Expected(snap, p) ==
    IF p \in DOMAIN snap /\ lastWrite[p] = snap[p] THEN snap[p] ELSE NoWrite

\* vault.py:339-346: the metadata returned when the stat call raises
DefaultMetadata ==
    [created |-> now, modified |-> now, tags |-> {}, links |-> {},
     backlinks |-> {}, yaml_frontmatter |-> EmptyDict]

\* the value _get_metadata(absolute_path, content) returns, given the cache mc
GetMetadata(mc, p, content) ==
    IF Abs(p) \in DOMAIN mc THEN mc[Abs(p)]
    ELSE IF ~PathExists(p) THEN DefaultMetadata
    ELSE ExtractMetadata(files[p], content)

\* self._metadata_cache after _get_metadata(absolute_path, content)
MetadataCacheAfter(mc, p, content) ==
    IF Abs(p) \in DOMAIN mc \/ ~PathExists(p) THEN mc
    ELSE Put(mc, Abs(p), ExtractMetadata(files[p], content))

\* self._metadata_cache after VaultManager.invalidate_cache(k)
InvalidatedMetadata(k) ==
    IF k = None THEN Empty ELSE Del(metadataCache, k)

\* the listing cache as it would be if invalidate_cache dropped it whatever
\* the argument
InvalidatedListDropped(k) == NoList

\* self._note_list_cache after VaultManager.invalidate_cache(k)
InvalidatedList(k) ==
    IF k = None THEN NoList
    ELSE IF listCache.set /\ listCache.notes # <<>>
    THEN SomeList(SelectSeq(listCache.notes, LAMBDA n : n.path # k))
    ELSE listCache

\* the index as it would be if build_index appended to the index of the
\* build before
BuildIndexAppending(notes) ==
    LET kept == SelectSeq(notes, LAMBDA n : ~ShouldSkipFile(n.path[2]))
    IN  index \o [i \in 1..Len(kept) |-> <<kept[i].title, kept[i].content>>]

\* search.py:195-204: the index built from a listing
BuildIndex(notes) ==
    LET kept == SelectSeq(notes, LAMBDA n : ~ShouldSkipFile(n.path[2]))
    IN  [i \in 1..Len(kept) |-> <<kept[i].title, kept[i].content>>]

JobPath(j) == IF j[2] = 0 THEN task[j[1]].path ELSE task[j[1]].md_files[j[2]]

DoneJobs == {d.job : d \in execDone}

DoneResult(j) == (CHOOSE d \in execDone : d.job = j).result

----------------------------------------------------------------------------
(* Initial states *)

TextA == <<"a">>
TextB == <<"#", "H", NL, "b">>

InitFiles ==
    {[p \in Paths |-> IF p = 1 THEN OkFile(TextA, 0)
                      ELSE f2] :
        f2 \in {MissingFile, BadFile, OkFile(TextB, 0)}}

InitCommon ==
    /\ now = 0
    /\ noteCache = Empty
    /\ metadataCache = Empty
    /\ listCache = NoList
    /\ listCacheTime = 0
    /\ index = <<>>
    /\ execQueue = <<>>
    /\ execRunning = <<>>
    /\ execDone = {}
    /\ ret = NoRet
    /\ nWrites = 0
    /\ fetchTime = Empty

Init ==
    /\ InitCommon
    /\ files \in InitFiles
    /\ task = [t \in Tasks |-> Idle]
    /\ maxConc = 1
    /\ lastWrite = [p \in Paths |-> NoWrite]
    /\ expectAppend = [p \in Paths |-> ReadText(p)]

----------------------------------------------------------------------------
(* The clock *)

Tick ==
    /\ now + TickStep <= MaxTime
    /\ now' = now + TickStep
    /\ ret' = NoRet
    /\ UNCHANGED <<files, noteCache, metadataCache, listCache, listCacheTime,
                   index, task, execQueue, execRunning, execDone, maxConc,
                   nWrites, fetchTime, lastWrite, expectAppend>>

----------------------------------------------------------------------------
(* self._executor = ThreadPoolExecutor(max_workers=4) *)

\* a worker thread takes the next read job
ExecStart ==
    /\ execQueue # <<>>
    /\ Len(execRunning) < MaxWorkers
    /\ execRunning' = Append(execRunning, Head(execQueue))
    /\ execQueue' = Tail(execQueue)
    /\ ret' = NoRet
    /\ UNCHANGED <<files, now, noteCache, metadataCache, listCache,
                   listCacheTime, index, task, execDone, maxConc, nWrites,
                   fetchTime, lastWrite, expectAppend>>

\* the worker thread of the i-th running job runs path.read_text and
\* completes the future
ExecFinish(i) ==
    /\ i \in 1..Len(execRunning)
    /\ i <= MaxOvertake + 1
    /\ Cardinality(execDone) < MaxBacklog
    /\ execRunning' = Slice(execRunning, 1, i - 1) \o From(execRunning, i + 1)
    /\ execDone' = execDone \cup {[job |-> execRunning[i],
                                   result |-> ReadText(JobPath(execRunning[i]))]}
    /\ ret' = NoRet
    /\ UNCHANGED <<files, now, noteCache, metadataCache, listCache,
                   listCacheTime, index, task, execQueue, maxConc, nWrites,
                   fetchTime, lastWrite, expectAppend>>

----------------------------------------------------------------------------
(* VaultManager.get_note with VaultManager._read_file *)

\* vault.py:385-386: the call is served from self._note_cache
CacheHit(p) == Abs(p) \in DOMAIN noteCache

\* age: the age of the self._note_cache entry the call found, -1 if none
GetRet(p, result, hit, age, reads, snap) ==
    [op |-> "get", path |-> p, result |-> result, hit |-> hit, age |-> age,
     reads |-> reads, expected |-> Expected(snap, p)]

\* vault.py:215-233 up to the first suspension
GetStart(t, p) ==
    /\ CanStart(t)
    /\ IF ~PathExists(p)
       THEN /\ ret' = GetRet(p, NoNote, FALSE, -1, 0, lastWrite)
            /\ UNCHANGED <<metadataCache, task, execQueue>>
       ELSE IF CacheHit(p)
       THEN LET content == noteCache[Abs(p)]
                md == GetMetadata(metadataCache, p, content)
            IN  /\ metadataCache' = MetadataCacheAfter(metadataCache, p, content)
                /\ ret' = GetRet(p, MkNote(p, content, md), TRUE,
                                 now - fetchTime[Abs(p)], 0, lastWrite)
                /\ UNCHANGED <<task, execQueue>>
       ELSE /\ task' = [task EXCEPT ![t] =
                  [Idle EXCEPT !.op = "get", !.pc = "read", !.path = p,
                               !.snap = lastWrite]]
            /\ execQueue' = Append(execQueue, <<t, 0>>)
            /\ ret' = NoRet
            /\ UNCHANGED metadataCache
    /\ UNCHANGED <<files, now, noteCache, listCache, listCacheTime, index,
                   execRunning, execDone, maxConc, nWrites, fetchTime,
                   lastWrite, expectAppend>>

\* vault.py:394-398 and 223-233: the coroutine resumes with the read result
GetResume(t) ==
    /\ task[t].op = "get"
    /\ task[t].pc = "read"
    /\ <<t, 0>> \in DoneJobs
    /\ LET p == task[t].path
           content == DoneResult(<<t, 0>>)
           md == GetMetadata(metadataCache, p, content)
       IN  IF content = None
           THEN /\ ret' = GetRet(p, NoNote, FALSE, -1, 1, task[t].snap)
                /\ UNCHANGED <<noteCache, fetchTime, metadataCache>>
           ELSE /\ noteCache' = Put(noteCache, Abs(p), content)
                /\ fetchTime' = Put(fetchTime, Abs(p), now)
                /\ metadataCache' = MetadataCacheAfter(metadataCache, p, content)
                /\ ret' = GetRet(p, MkNote(p, content, md), FALSE, -1, 1,
                                 task[t].snap)
    /\ task' = [task EXCEPT ![t] = Idle]
    /\ execDone' = {d \in execDone : d.job # <<t, 0>>}
    /\ UNCHANGED <<files, now, listCache, listCacheTime, index, execQueue,
                   execRunning, maxConc, nWrites, lastWrite, expectAppend>>

----------------------------------------------------------------------------
(* VaultManager._write_file: asyncio.to_thread(path.write_text, ...) *)

\* the thread runs path.write_text; writing over an unreadable file replaces
\* it or raises, depending on why it cannot be read
ThreadWrite(t) ==
    /\ task[t].pc = "write"
    /\ LET p == task[t].path
       IN  \E ok \in (IF files[p].kind = "bad" THEN BOOLEAN ELSE {TRUE}) :
              /\ task' = [task EXCEPT ![t].pc = "wrote", ![t].wok = ok]
              /\ IF ok
                 THEN /\ files' = [files EXCEPT ![p] = OkFile(task[t].newc, now)]
                      /\ lastWrite' = [lastWrite EXCEPT ![p] = NoWrite]
                 ELSE UNCHANGED <<files, lastWrite>>
    /\ ret' = NoRet
    /\ UNCHANGED <<now, noteCache, metadataCache, listCache, listCacheTime,
                   index, execQueue, execRunning, execDone, maxConc, nWrites,
                   fetchTime, expectAppend>>

----------------------------------------------------------------------------
(* VaultManager.update_note *)

UpdateRet(p, result, mode, heading) ==
    [op |-> "update", path |-> p, result |-> result, mode |-> mode,
     heading |-> heading]

\* update_note as it would be with the invalidation ahead of the existence
\* check: the listing cache is dropped although nothing was written
UpdateMissingInvalidates(p, mode, heading) ==
    /\ ret' = UpdateRet(p, FALSE, mode, heading)
    /\ listCache' = NoList
    /\ UNCHANGED <<files, noteCache, metadataCache, listCacheTime, task,
                   execQueue, fetchTime>>

\* vault.py:175-177: the early return for a path that does not exist
UpdateMissing(p, mode, heading) ==
    /\ ret' = UpdateRet(p, FALSE, mode, heading)
    /\ UNCHANGED <<files, noteCache, metadataCache, listCache, listCacheTime,
                   task, execQueue, fetchTime>>

\* vault.py:172-204 up to the first suspension
UpdateStart(t, p, c, mode, heading) ==
    /\ CanStart(t)
    /\ nWrites < MaxWrites
    /\ nWrites' = nWrites + 1
    /\ IF ~PathExists(p)
       THEN UpdateMissing(p, mode, heading)
       ELSE /\ IF CacheHit(p)
               THEN /\ task' = [task EXCEPT ![t] =
                          [Idle EXCEPT !.op = "update", !.pc = "write",
                                       !.path = p, !.content = c,
                                       !.mode = mode, !.heading = heading,
                                       !.newc = NewContent(noteCache[Abs(p)],
                                                           c, mode, heading)]]
                    /\ UNCHANGED execQueue
               ELSE /\ task' = [task EXCEPT ![t] =
                          [Idle EXCEPT !.op = "update", !.pc = "read",
                                       !.path = p, !.content = c,
                                       !.mode = mode, !.heading = heading]]
                    /\ execQueue' = Append(execQueue, <<t, 0>>)
            /\ ret' = NoRet
            /\ UNCHANGED <<files, noteCache, metadataCache, listCache,
                           listCacheTime, fetchTime>>
    /\ UNCHANGED <<now, index, execRunning, execDone, maxConc, lastWrite,
                   expectAppend>>

\* vault.py:180-204: the coroutine resumes with the existing content
UpdateResume(t) ==
    /\ task[t].op = "update"
    /\ task[t].pc = "read"
    /\ <<t, 0>> \in DoneJobs
    /\ LET p == task[t].path
           existing == DoneResult(<<t, 0>>)
       IN  IF existing = None
           THEN /\ ret' = UpdateRet(p, FALSE, task[t].mode, task[t].heading)
                /\ task' = [task EXCEPT ![t] = Idle]
                /\ UNCHANGED <<noteCache, fetchTime>>
           ELSE /\ noteCache' = Put(noteCache, Abs(p), existing)
                /\ fetchTime' = Put(fetchTime, Abs(p), now)
                /\ task' = [task EXCEPT ![t].pc = "write",
                               ![t].newc = NewContent(existing, task[t].content,
                                              task[t].mode, task[t].heading)]
                /\ ret' = NoRet
    /\ execDone' = {d \in execDone : d.job # <<t, 0>>}
    /\ UNCHANGED <<files, now, metadataCache, listCache, listCacheTime, index,
                   execQueue, execRunning, maxConc, nWrites, lastWrite,
                   expectAppend>>

\* self._note_cache after update_note as it would be if the entry were
\* evicted under the key it is stored with, the metadata entry staying
NoteCacheAfterUpdateAbs(p) == Del(noteCache, Abs(p))

\* vault.py:205-207: what update_note removes from self._note_cache
NoteCacheAfterUpdate(p) == Del(noteCache, Rel(p))

\* vault.py:205-213: the coroutine resumes after the write
UpdateFinish(t) ==
    /\ task[t].op = "update"
    /\ task[t].pc = "wrote"
    /\ LET p == task[t].path
       IN  IF task[t].wok
           THEN /\ metadataCache' = InvalidatedMetadata(Rel(p))
                /\ listCache' = InvalidatedList(Rel(p))
                /\ noteCache' = NoteCacheAfterUpdate(p)
                /\ fetchTime' = [k \in DOMAIN noteCache' |-> fetchTime[k]]
                /\ lastWrite' = [lastWrite EXCEPT ![p] =
                                    [op |-> "update", text |-> task[t].newc]]
                /\ expectAppend' = [expectAppend EXCEPT ![p] =
                      IF /\ task[t].mode = "append"
                         /\ task[t].heading = None
                         /\ expectAppend[p] # None
                      THEN expectAppend[p] \o <<NL>> \o task[t].content
                      ELSE task[t].newc]
                /\ ret' = UpdateRet(p, TRUE, task[t].mode, task[t].heading)
           ELSE /\ ret' = UpdateRet(p, FALSE, task[t].mode, task[t].heading)
                /\ UNCHANGED <<metadataCache, listCache, noteCache, fetchTime,
                               lastWrite, expectAppend>>
    /\ task' = [task EXCEPT ![t] = Idle]
    /\ UNCHANGED <<files, now, listCacheTime, index, execQueue, execRunning,
                   execDone, maxConc, nWrites>>

----------------------------------------------------------------------------
(* VaultManager.create_note *)

CreateRet(p, result, written) ==
    [op |-> "create", path |-> p, result |-> result, written |-> written]

\* vault.py:135-147 up to the suspension in _write_file
CreateStart(t, p, c, meta) ==
    /\ CanStart(t)
    /\ nWrites < MaxWrites
    /\ nWrites' = nWrites + 1
    /\ task' = [task EXCEPT ![t] =
          [Idle EXCEPT !.op = "create", !.pc = "write", !.path = p,
                       !.content = c, !.newc = FullContent(c, meta)]]
    /\ ret' = NoRet
    /\ UNCHANGED <<files, now, noteCache, metadataCache, listCache,
                   listCacheTime, index, execQueue, execRunning, execDone,
                   maxConc, fetchTime, lastWrite, expectAppend>>

\* vault.py:148-157: after the write, get_note up to its first suspension
CreateAfterWrite(t) ==
    /\ task[t].op = "create"
    /\ task[t].pc = "wrote"
    /\ LET p == task[t].path
           content == noteCache[Abs(p)]
           md == GetMetadata(metadataCache, p, content)
       IN  IF ~task[t].wok \/ ~PathExists(p)
           THEN /\ ret' = CreateRet(p, NoNote, task[t].newc)
                /\ task' = [task EXCEPT ![t] = Idle]
                /\ UNCHANGED <<metadataCache, execQueue, lastWrite,
                               expectAppend>>
           ELSE IF CacheHit(p)
           THEN /\ metadataCache' = MetadataCacheAfter(metadataCache, p, content)
                /\ ret' = CreateRet(p, MkNote(p, content, md), task[t].newc)
                /\ task' = [task EXCEPT ![t] = Idle]
                /\ lastWrite' = [lastWrite EXCEPT ![p] =
                                    [op |-> "create", text |-> task[t].newc]]
                /\ expectAppend' = [expectAppend EXCEPT ![p] = task[t].newc]
                /\ UNCHANGED execQueue
           ELSE /\ task' = [task EXCEPT ![t].pc = "read"]
                /\ execQueue' = Append(execQueue, <<t, 0>>)
                /\ ret' = NoRet
                /\ UNCHANGED <<metadataCache, lastWrite, expectAppend>>
    /\ UNCHANGED <<files, now, noteCache, listCache, listCacheTime, index,
                   execRunning, execDone, maxConc, nWrites, fetchTime>>

\* vault.py:148-154 with 223-233: the coroutine resumes with the read result
CreateResume(t) ==
    /\ task[t].op = "create"
    /\ task[t].pc = "read"
    /\ <<t, 0>> \in DoneJobs
    /\ LET p == task[t].path
           content == DoneResult(<<t, 0>>)
           md == GetMetadata(metadataCache, p, content)
       IN  IF content = None
           THEN /\ ret' = CreateRet(p, NoNote, task[t].newc)
                /\ UNCHANGED <<noteCache, fetchTime, metadataCache, lastWrite,
                               expectAppend>>
           ELSE /\ noteCache' = Put(noteCache, Abs(p), content)
                /\ fetchTime' = Put(fetchTime, Abs(p), now)
                /\ metadataCache' = MetadataCacheAfter(metadataCache, p, content)
                /\ lastWrite' = [lastWrite EXCEPT ![p] =
                                    [op |-> "create", text |-> task[t].newc]]
                /\ expectAppend' = [expectAppend EXCEPT ![p] = task[t].newc]
                /\ ret' = CreateRet(p, MkNote(p, content, md), task[t].newc)
    /\ task' = [task EXCEPT ![t] = Idle]
    /\ execDone' = {d \in execDone : d.job # <<t, 0>>}
    /\ UNCHANGED <<files, now, listCache, listCacheTime, index, execQueue,
                   execRunning, maxConc, nWrites>>

----------------------------------------------------------------------------
(* VaultManager.invalidate_cache, called from outside *)

\* vault.py:410-425; what invalidate_cache leaves in self._note_cache
NoteCacheAfterInvalidate(k) == noteCache

Invalidate(k) ==
    /\ Cardinality(Active) < maxConc
    /\ metadataCache' = InvalidatedMetadata(k)
    /\ listCache' = InvalidatedList(k)
    /\ noteCache' = NoteCacheAfterInvalidate(k)
    /\ ret' = [op |-> "invalidate", key |-> k]
    /\ UNCHANGED <<files, now, listCacheTime, index, task, execQueue,
                   execRunning, execDone, maxConc, nWrites, fetchTime,
                   lastWrite, expectAppend>>

----------------------------------------------------------------------------
(* VaultManager.get_all_notes, alone and inside SearchEngine.build_index *)

RECURSIVE Ascending(_)
Ascending(ps) ==
    IF ps = {} THEN <<>>
    ELSE LET m == CHOOSE a \in ps : \A b \in ps : a <= b
         IN  <<m>> \o Ascending(ps \ {m})

\* list(self.vault_path.rglob("*.md"))
MdFiles == Ascending({p \in DOMAIN files : PathExists(p)})

ListRet(op, notes, scanned, mdf, snap) ==
    [op |-> op, result |-> notes, scanned |-> scanned, md_files |-> mdf,
     expected |-> [p \in DOMAIN files |-> Expected(snap, p)]]

\* the freshness test as it would be with the boundary second still fresh
ListCacheFreshInclusive == listCache.set /\ now - listCacheTime <= CacheTTL

\* vault.py:240-241
ListCacheFresh == listCache.set /\ now - listCacheTime < CacheTTL

\* vault.py:240-273 (and search.py:192-211 when the listing is cached)
ListStart(t, op) ==
    /\ CanStart(t)
    /\ IF ListCacheFresh
       THEN /\ ret' = ListRet(op, listCache.notes, FALSE, <<>>, lastWrite)
            /\ index' = IF op = "build" THEN BuildIndex(listCache.notes) ELSE index
            /\ UNCHANGED task
       ELSE /\ task' = [task EXCEPT ![t] =
                  [Idle EXCEPT !.op = op, !.pc = "spawn", !.md_files = MdFiles,
                               !.child = [i \in 1..Len(MdFiles) |-> "wait"],
                               !.res = [i \in 1..Len(MdFiles) |-> NoNote],
                               !.snap = lastWrite]]
            /\ ret' = NoRet
            /\ UNCHANGED index
    /\ UNCHANGED <<files, now, noteCache, metadataCache, listCache,
                   listCacheTime, execQueue, execRunning, execDone, maxConc,
                   nWrites, fetchTime, lastWrite, expectAppend>>

\* a load that get_note finishes without suspending: the path is gone or
\* its content is in self._note_cache
Immediate(nc, p) == ~PathExists(p) \/ Abs(p) \in DOMAIN nc

ImmediateNote(mc, nc, p) ==
    IF ~PathExists(p) THEN NoNote
    ELSE MkNote(p, nc[Abs(p)], GetMetadata(mc, p, nc[Abs(p)]))

\* self._metadata_cache after the immediate loads of the paths ps
MetadataCacheAfterAll(mc, nc, ps) ==
    LET new == {Abs(p) : p \in {q \in ps : PathExists(q)}} \ DOMAIN mc
    IN  [k \in (DOMAIN mc) \cup new |->
            IF k \in DOMAIN mc THEN mc[k]
            ELSE ExtractMetadata(files[k[2]], nc[k])]

\* the permits of the call's asyncio.Semaphore(50) that are taken
InFlight(t) == Cardinality({i \in 1..Len(task[t].child) : task[t].child[i] = "read"})

\* vault.py:267: sem = asyncio.Semaphore(50), the permits free for a child
SemFree(held) == held < SemPermits

\* vault.py:269-274: the first step of every bounded_process task, in order:
\* each takes a permit if one is free and runs get_note to its suspension
ScanSpawn(t) ==
    /\ task[t].pc = "spawn"
    /\ LET fs == task[t].md_files
           n == Len(fs)
           slow == {i \in 1..n : ~Immediate(noteCache, fs[i])}
           held(i) == Cardinality({k \in slow : k < i})
           runs == {i \in 1..n : SemFree(held(i))}
           quick == runs \ slow
           submit == Ascending(runs \cap slow)
       IN  /\ task' = [task EXCEPT
                 ![t].pc = "scan",
                 ![t].child = [i \in 1..n |->
                     IF i \in quick THEN "done"
                     ELSE IF i \in runs THEN "read" ELSE "wait"],
                 ![t].res = [i \in 1..n |->
                     IF i \in quick
                     THEN ImmediateNote(metadataCache, noteCache, fs[i])
                     ELSE NoNote]]
           /\ metadataCache' = MetadataCacheAfterAll(metadataCache, noteCache,
                                                     {fs[i] : i \in quick})
           /\ execQueue' = execQueue \o [k \in 1..Len(submit) |-> <<t, submit[k]>>]
    /\ ret' = NoRet
    /\ UNCHANGED <<files, now, noteCache, listCache, listCacheTime, index,
                   execRunning, execDone, maxConc, nWrites, fetchTime,
                   lastWrite, expectAppend>>

\* vault.py:253-265 and 270-271: a bounded_process task resumes with its read
\* result, finishes get_note and releases its permit; the release lets the
\* waiting tasks run, in order, until one of them suspends in a read
ChildResume(t, i) ==
    /\ task[t].pc = "scan"
    /\ task[t].child[i] = "read"
    /\ <<t, i>> \in DoneJobs
    /\ LET fs == task[t].md_files
           n == Len(fs)
           p == fs[i]
           content == DoneResult(<<t, i>>)
           nc == IF content = None THEN noteCache
                 ELSE Put(noteCache, Abs(p), content)
           mc == IF content = None THEN metadataCache
                 ELSE MetadataCacheAfter(metadataCache, p, content)
           note == IF content = None THEN NoNote
                   ELSE MkNote(p, content, GetMetadata(metadataCache, p, content))
           waiting == {k \in 1..n : task[t].child[k] = "wait"}
           slow == {k \in waiting : ~Immediate(nc, fs[k])}
           quick == {k \in waiting : \A m \in slow : k < m}
           next == {k \in slow : \A m \in slow : k <= m}
       IN  /\ noteCache' = nc
           /\ fetchTime' = IF content = None THEN fetchTime
                           ELSE Put(fetchTime, Abs(p), now)
           /\ metadataCache' = MetadataCacheAfterAll(mc, nc, {fs[k] : k \in quick})
           /\ task' = [task EXCEPT
                 ![t].child = [k \in 1..n |->
                     IF k = i \/ k \in quick THEN "done"
                     ELSE IF k \in next THEN "read" ELSE task[t].child[k]],
                 ![t].res = [k \in 1..n |->
                     IF k = i THEN note
                     ELSE IF k \in quick THEN ImmediateNote(mc, nc, fs[k])
                     ELSE task[t].res[k]]]
           /\ execQueue' = execQueue \o [k \in 1..Cardinality(next) |-> <<t, CHOOSE m \in next : TRUE>>]
    /\ execDone' = {d \in execDone : d.job # <<t, i>>}
    /\ ret' = NoRet
    /\ UNCHANGED <<files, now, listCache, listCacheTime, index, execRunning,
                   maxConc, nWrites, lastWrite, expectAppend>>

\* vault.py:274-280 (and search.py:192-211): gather is complete
ScanFinish(t) ==
    /\ task[t].pc = "scan"
    /\ task[t].op \in {"list", "build"}
    /\ \A i \in 1..Len(task[t].child) : task[t].child[i] = "done"
    /\ LET notes == SelectSeq(task[t].res, LAMBDA r : r # NoNote)
       IN  /\ listCache' = SomeList(notes)
           /\ listCacheTime' = now
           /\ index' = IF task[t].op = "build" THEN BuildIndex(notes) ELSE index
           /\ ret' = ListRet(task[t].op, notes, TRUE, task[t].md_files,
                             task[t].snap)
    /\ task' = [task EXCEPT ![t] = Idle]
    /\ UNCHANGED <<files, now, noteCache, metadataCache, execQueue,
                   execRunning, execDone, maxConc, nWrites, fetchTime,
                   lastWrite, expectAppend>>

----------------------------------------------------------------------------
(* The calls the caller makes *)

Contents == {<<"x">>}
Modes == {"append", "replace"}
Headings == {None, <<"h">>}
Metas == {None, <<(<< <<"k">>, <<"v">> >>)>>}

Next ==
    \/ Tick
    \/ ExecStart
    \/ \E i \in 1..Len(execRunning) : ExecFinish(i)
    \/ \E t \in Tasks, p \in DOMAIN files : GetStart(t, p)
    \/ \E t \in Tasks : GetResume(t)
    \/ \E t \in Tasks, p \in DOMAIN files, c \in Contents, m \in Modes,
          h \in Headings : UpdateStart(t, p, c, m, h)
    \/ \E t \in Tasks : UpdateResume(t)
    \/ \E t \in Tasks : ThreadWrite(t)
    \/ \E t \in Tasks : UpdateFinish(t)
    \/ \E t \in Tasks, p \in DOMAIN files, c \in Contents, m \in Metas :
          CreateStart(t, p, c, m)
    \/ \E t \in Tasks : CreateAfterWrite(t)
    \/ \E t \in Tasks : CreateResume(t)
    \/ \E k \in {None} \cup {Rel(p) : p \in DOMAIN files} : Invalidate(k)
    \/ \E t \in Tasks, op \in {"list", "build"} : ListStart(t, op)
    \/ \E t \in Tasks : ScanSpawn(t)
    \/ \E t \in Tasks : \E i \in 1..Len(task[t].child) : ChildResume(t, i)
    \/ \E t \in Tasks : ScanFinish(t)

Spec == Init /\ [][Next]_vars

----------------------------------------------------------------------------
(* A large vault listed by two callers at once *)

BulkText == <<"a">>

InitBulk ==
    /\ InitCommon
    /\ files = [p \in 1..BulkFiles |-> OkFile(BulkText, 0)]
    /\ task = [t \in Tasks |-> Idle]
    /\ maxConc = MaxTasks
    /\ lastWrite = [p \in 1..BulkFiles |-> NoWrite]
    /\ expectAppend = [p \in 1..BulkFiles |-> BulkText]

NextBulk ==
    \/ ExecStart
    \/ \E i \in 1..Len(execRunning) : ExecFinish(i)
    \/ \E t \in Tasks : ListStart(t, "list")
    \/ \E t \in Tasks : ScanSpawn(t)
    \/ \E t \in Tasks : \E i \in 1..Len(task[t].child) : ChildResume(t, i)
    \/ \E t \in Tasks : ScanFinish(t)

SpecBulk == InitBulk /\ [][NextBulk]_vars



----------------------------------------------------------------------------
(* SearchEngine.search, with rapidfuzz's process.extract and
   fuzz.partial_ratio *)

PreviewLen == 200
DefaultThreshold == 60
DefaultMaxResults == 10

Ellipsis == <<".", ".", ".">>

Min(a, b) == IF a <= b THEN a ELSE b

Max(a, b) == IF a >= b THEN a ELSE b

RECURSIVE Gcd(_, _)
Gcd(a, b) == IF b = 0 THEN a ELSE Gcd(b, a % b)

RECURSIVE LcmUpTo(_)
LcmUpTo(n) ==
    IF n <= 1 THEN 1
    ELSE LET l == LcmUpTo(n - 1) IN (l * n) \div Gcd(l, n)

\* scores are the library's floats times ScoreUnit, which makes every score
\* of two strings of at most MaxChars characters an integer
ScoreUnit == LcmUpTo(2 * MaxChars)

\* the longest common subsequence, the similarity of the Indel distance
RECURSIVE LcsLen(_, _)
LcsLen(a, b) ==
    IF a = <<>> \/ b = <<>> THEN 0
    ELSE IF Head(a) = Head(b) THEN 1 + LcsLen(Tail(a), Tail(b))
    ELSE Max(LcsLen(Tail(a), b), LcsLen(a, Tail(b)))

\* fuzz.ratio: 100 * (1 - Indel distance / (len1 + len2))
Ratio(a, b) ==
    IF Len(a) + Len(b) = 0 THEN 100 * ScoreUnit
    ELSE (200 * LcsLen(a, b) * ScoreUnit) \div (Len(a) + Len(b))

\* the substrings of the longer string the shorter one is aligned with:
\* the prefixes shorter than it, the windows of its length, the suffixes
Windows(shorter, longer) ==
    LET m == Len(shorter)
        n == Len(longer)
    IN  {Slice(longer, 1, i) : i \in 1..(m - 1)}
            \cup {Slice(longer, i, i + m - 1) : i \in 1..(n - m)}
            \cup {From(longer, i) : i \in (n - m + 1)..n}

\* fuzz.partial_ratio
PartialRatio(s1, s2) ==
    IF s1 = <<>> /\ s2 = <<>> THEN 100 * ScoreUnit
    ELSE IF s1 = <<>> \/ s2 = <<>> THEN 0
    ELSE LET shorter == IF Len(s1) <= Len(s2) THEN s1 ELSE s2
             longer == IF Len(s1) <= Len(s2) THEN s2 ELSE s1
             scores == {Ratio(shorter, w) : w \in Windows(shorter, longer)}
         IN  CHOOSE x \in scores : \A y \in scores : y <= x

\* the place of a match in a list sorted by descending score; a match goes
\* behind the matches of equal score that are already there
RECURSIVE InsertByScore(_, _)
InsertByScore(sorted, m) ==
    IF sorted = <<>> THEN <<m>>
    ELSE IF Head(sorted).score >= m.score
         THEN <<Head(sorted)>> \o InsertByScore(Tail(sorted), m)
         ELSE <<m>> \o sorted

RECURSIVE SortByScore(_)
SortByScore(ms) ==
    IF ms = <<>> THEN <<>>
    ELSE InsertByScore(SortByScore(Slice(ms, 1, Len(ms) - 1)), ms[Len(ms)])

\* process.extract as it would be with the limit applied to the titles in
\* index order, before they are scored and sorted
ExtractFirstTitles(query, titles, limit) ==
    LET first == Slice(titles, 1, Min(limit, Len(titles)))
    IN  SortByScore([i \in 1..Len(first) |->
                        [title |-> first[i],
                         score |-> PartialRatio(query, first[i]),
                         idx |-> i]])

\* process.extract(query, titles, scorer=fuzz.partial_ratio, limit=limit):
\* the limit best (title, score, index) in descending score order
Extract(query, titles, limit) ==
    LET scored == [i \in 1..Len(titles) |->
                      [title |-> titles[i],
                       score |-> PartialRatio(query, titles[i]),
                       idx |-> i]]
        sorted == SortByScore(scored)
    IN  Slice(sorted, 1, Min(limit, Len(sorted)))

\* the preview as it would be with a content of exactly the preview length
\* cut as well
PreviewAtLimit(content) ==
    IF Len(content) >= PreviewLen
    THEN Slice(content, 1, PreviewLen) \o Ellipsis
    ELSE content

\* search.py:222
Preview(content) ==
    IF Len(content) > PreviewLen
    THEN Slice(content, 1, PreviewLen) \o Ellipsis
    ELSE content

\* the matches kept if a score equal to the threshold were rejected
KeptStrict(idx, query, threshold, max_results) ==
    LET titles == [i \in 1..Len(idx) |-> idx[i][1]]
    IN  SelectSeq(Extract(query, titles, max_results),
                  LAMBDA m : m.score > threshold * ScoreUnit)

\* search.py:219-220: the matches of process.extract that search keeps
Kept(idx, query, threshold, max_results) ==
    LET titles == [i \in 1..Len(idx) |-> idx[i][1]]
    IN  SelectSeq(Extract(query, titles, max_results),
                  LAMBDA m : m.score >= threshold * ScoreUnit)

\* search as it would be if it looked at the best match before the loop:
\* matches[0] raises IndexError when process.extract returns no match
SearchBestFirst(idx, query, threshold, max_results) ==
    LET kept == Kept(idx, query, threshold, max_results)
        titles == [i \in 1..Len(idx) |-> idx[i][1]]
    IN  IF Extract(query, titles, max_results) = <<>>
        THEN [raised |-> TRUE, results |-> <<>>]
        ELSE [raised |-> FALSE,
              results |-> [i \in 1..Len(kept) |->
                              [title |-> kept[i].title,
                               score |-> kept[i].score,
                               content |-> Preview(idx[kept[i].idx][2])]]]

\* search.py:215-228
Search(idx, query, threshold, max_results) ==
    LET kept == Kept(idx, query, threshold, max_results)
    IN  [raised |-> FALSE,
         results |-> [i \in 1..Len(kept) |->
                         [title |-> kept[i].title,
                          score |-> kept[i].score,
                          content |-> Preview(idx[kept[i].idx][2])]]]

\* a caller's search call on the index as it is
SearchCall(query, threshold, max_results) ==
    /\ Active = {}
    /\ LET out == Search(index, query, threshold, max_results)
       IN  ret' = [op |-> "search", query |-> query, threshold |-> threshold,
                   max_results |-> max_results, raised |-> out.raised,
                   result |-> out.results,
                   hits |-> [i \in 1..Len(out.results) |->
                                Kept(index, query, threshold,
                                     max_results)[i].idx]]
    /\ UNCHANGED <<files, now, noteCache, metadataCache, listCache,
                   listCacheTime, index, task, execQueue, execRunning,
                   execDone, maxConc, nWrites, fetchTime, lastWrite,
                   expectAppend>>

\* file contents of the searched vault: one at the preview length, one a
\* character over it, the others short
SearchText(p) ==
    CASE p = 2 -> [i \in 1..PreviewLen |-> "c"]
      [] p = 4 -> [i \in 1..(PreviewLen + 1) |-> IF i <= PreviewLen THEN "c" ELSE "d"]
      [] OTHER -> <<"c">>

VaultSizes == {0, 2, SearchFiles}

InitSearch ==
    /\ InitCommon
    /\ \E n \in VaultSizes :
          /\ files = [p \in 1..n |-> OkFile(SearchText(p), 0)]
          /\ lastWrite = [p \in 1..n |-> NoWrite]
          /\ expectAppend = [p \in 1..n |-> SearchText(p)]
    /\ task = [t \in Tasks |-> Idle]
    /\ maxConc = 1

Queries == {<<>>, <<"a">>, <<"n">>, <<"n", "4">>, <<"n", "12">>, <<"a", "b">>,
            <<"z">>}
Thresholds == {0, DefaultThreshold, 100}
Limits == {0, 1, 2, DefaultMaxResults}

NextSearch ==
    \/ ExecStart
    \/ \E i \in 1..Len(execRunning) : ExecFinish(i)
    \/ \E t \in Tasks : ListStart(t, "build")
    \/ \E t \in Tasks : ScanSpawn(t)
    \/ \E t \in Tasks : \E i \in 1..Len(task[t].child) : ChildResume(t, i)
    \/ \E t \in Tasks : ScanFinish(t)
    \/ \E q \in Queries, th \in Thresholds, mr \in Limits :
          SearchCall(q, th, mr)

SpecSearch == InitSearch /\ [][NextSearch]_vars

----------------------------------------------------------------------------
(* SearchEngine.build_index over a vault with a note under templates/ and a
   note outside it whose file name holds the directory's name *)

SkipVault == {0, 1, 3}

InitSkip ==
    /\ InitCommon
    /\ \E ps \in SUBSET SkipVault :
          /\ files = [p \in ps |-> OkFile(SearchText(p), 0)]
          /\ lastWrite = [p \in ps |-> NoWrite]
          /\ expectAppend = [p \in ps |-> SearchText(p)]
    /\ task = [t \in Tasks |-> Idle]
    /\ maxConc = 1

NextSkip ==
    \/ ExecStart
    \/ \E i \in 1..Len(execRunning) : ExecFinish(i)
    \/ \E t \in Tasks : ListStart(t, "build")
    \/ \E t \in Tasks : ScanSpawn(t)
    \/ \E t \in Tasks : \E i \in 1..Len(task[t].child) : ChildResume(t, i)
    \/ \E t \in Tasks : ScanFinish(t)
    \/ \E q \in Queries, th \in Thresholds, mr \in Limits :
          SearchCall(q, th, mr)

SpecSkip == InitSkip /\ [][NextSkip]_vars

----------------------------------------------------------------------------
(* VaultManager._get_metadata called on a path and a content *)

\* _get_metadata as it would be without the outer try/except: a failing
\* path.stat() raises out of the call
MetaOutcomeUnguarded(mc, p, content) ==
    IF Abs(p) \notin DOMAIN mc /\ ~PathExists(p)
    THEN [raised |-> TRUE, value |-> DefaultMetadata]
    ELSE [raised |-> FALSE, value |-> GetMetadata(mc, p, content)]

\* vault.py:295-346: every exception of the body is caught at line 337, and
\* the handler returns the default VaultMetadata
MetaOutcome(mc, p, content) ==
    [raised |-> FALSE, value |-> GetMetadata(mc, p, content)]

MetaCall(p, content) ==
    /\ LET out == MetaOutcome(metadataCache, p, content)
       IN  ret' = [op |-> "metadata", path |-> p, content |-> content,
                   raised |-> out.raised, result |-> out.value,
                   hit |-> Abs(p) \in DOMAIN metadataCache,
                   before |-> IF ret.op = "metadata"
                              THEN [op |-> "metadata", path |-> ret.path,
                                    content |-> ret.content,
                                    result |-> ret.result]
                              ELSE NoRet]
    /\ metadataCache' = MetadataCacheAfter(metadataCache, p, content)
    /\ UNCHANGED <<files, now, noteCache, listCache, listCacheTime, index,
                   task, execQueue, execRunning, execDone, maxConc, nWrites,
                   fetchTime, lastWrite, expectAppend>>

\* time passes between two calls
MetaWait ==
    /\ now + TickStep <= MaxTime
    /\ now' = now + TickStep
    /\ UNCHANGED <<files, noteCache, metadataCache, listCache, listCacheTime,
                   index, task, execQueue, execRunning, execDone, ret,
                   maxConc, nWrites, fetchTime, lastWrite, expectAppend>>

PlainText == <<"a">>
TaggedText == <<"#", "t", " ", "[", "[", "a", "]", "]">>
MappingText == <<"-", "-", "-", NL, "k", ":", " ", "v", NL, "-", "-", "-", NL, "b">>
TemplateText == <<"-", "-", "-", NL, "k", ":", " ", "{", "{", "x", "}", "}", NL, "-", "-", "-", NL, "b">>
TemplateTagText == <<"-", "-", "-", NL, "{", "%", " ", "x", " ", "%", "}", ":", " ", "v", ":", " ", "w", NL, "-", "-", "-", NL, "#", "t">>
BrokenText == <<"-", "-", "-", NL, "k", ":", " ", "v", ":", " ", "w", NL, "-", "-", "-", NL, "b">>
ScalarText == <<"-", "-", "-", NL, "v", NL, "-", "-", "-", NL, "b">>

MetaContents ==
    {PlainText, TaggedText, MappingText, TemplateText, TemplateTagText,
     BrokenText, ScalarText}

\* path 1 is a file; path 2 is gone when _get_metadata stats it
InitMeta ==
    /\ InitCommon
    /\ files = (1 :> OkFile(PlainText, 0)) @@ (2 :> MissingFile)
    /\ task = [t \in Tasks |-> Idle]
    /\ maxConc = 1
    /\ lastWrite = [p \in Paths |-> NoWrite]
    /\ expectAppend = [p \in Paths |-> <<>>]

NextMeta ==
    \/ \E p \in Paths, c \in MetaContents : MetaCall(p, c)
    \/ MetaWait
    \/ \E k \in {None} \cup {Abs(p) : p \in Paths} : Invalidate(k)

SpecMeta == InitMeta /\ [][NextMeta]_vars

----------------------------------------------------------------------------
(* update_note on documents with and without the heading *)

\* no heading
DocPlain == <<"a">>
\* the heading h as the first line
DocHeading == <<"#", " ", "H", NL, "b">>
\* another heading
DocOtherHeading == <<"#", " ", "t", NL, "b">>
\* no heading, and a line with "#h" in the middle of its text
DocHashInText == <<"a", " ", "#", "h", NL, "b">>
\* the heading h as the last line, without a line end
DocHeadingLast == <<"b", NL, "#", " ", "h">>

HeadingDocs ==
    {DocPlain, DocHeading, DocOtherHeading, DocHashInText, DocHeadingLast}

InitHeading ==
    /\ InitCommon
    /\ \E doc \in HeadingDocs :
          /\ files = (1 :> OkFile(doc, 0)) @@ (2 :> MissingFile)
          /\ expectAppend = (1 :> doc) @@ (2 :> None)
    /\ task = [t \in Tasks |-> Idle]
    /\ maxConc = 1
    /\ lastWrite = [p \in Paths |-> NoWrite]

NextHeading ==
    \/ ExecStart
    \/ \E i \in 1..Len(execRunning) : ExecFinish(i)
    \/ \E t \in Tasks, p \in DOMAIN files, c \in Contents, m \in Modes,
          h \in Headings : UpdateStart(t, p, c, m, h)
    \/ \E t \in Tasks : UpdateResume(t)
    \/ \E t \in Tasks : ThreadWrite(t)
    \/ \E t \in Tasks : UpdateFinish(t)

SpecHeading == InitHeading /\ [][NextHeading]_vars

----------------------------------------------------------------------------
(* get_note, get_all_notes and update_note of one note, running concurrently *)

InitRace ==
    /\ InitCommon
    /\ files = (1 :> OkFile(TextA, 0))
    /\ task = [t \in Tasks |-> Idle]
    /\ maxConc = MaxTasks
    /\ lastWrite = (1 :> NoWrite)
    /\ expectAppend = (1 :> TextA)

NextRace ==
    \/ ExecStart
    \/ \E i \in 1..Len(execRunning) : ExecFinish(i)
    \/ \E t \in Tasks, p \in DOMAIN files : GetStart(t, p)
    \/ \E t \in Tasks : GetResume(t)
    \/ \E t \in Tasks, p \in DOMAIN files, c \in Contents :
          UpdateStart(t, p, c, "append", None)
    \/ \E t \in Tasks : UpdateResume(t)
    \/ \E t \in Tasks : ThreadWrite(t)
    \/ \E t \in Tasks : UpdateFinish(t)
    \/ \E t \in Tasks : ListStart(t, "list")
    \/ \E t \in Tasks : ScanSpawn(t)
    \/ \E t \in Tasks : \E i \in 1..Len(task[t].child) : ChildResume(t, i)
    \/ \E t \in Tasks : ScanFinish(t)

SpecRace == InitRace /\ [][NextRace]_vars

----------------------------------------------------------------------------
(* invalidate_cache called with relative and with absolute paths on the
   caches a listing filled *)

NextInvalidate ==
    \/ Tick
    \/ ExecStart
    \/ \E i \in 1..Len(execRunning) : ExecFinish(i)
    \/ \E t \in Tasks : ListStart(t, "list")
    \/ \E t \in Tasks : ScanSpawn(t)
    \/ \E t \in Tasks : \E i \in 1..Len(task[t].child) : ChildResume(t, i)
    \/ \E t \in Tasks : ScanFinish(t)
    \/ \E k \in {None} \cup {Rel(p) : p \in DOMAIN files}
                \cup {Abs(p) : p \in DOMAIN files} : Invalidate(k)

SpecInvalidate == Init /\ [][NextInvalidate]_vars

----------------------------------------------------------------------------
(* a listing and an update_note running concurrently: the reads of
   _read_file on self._executor, the write of _write_file on a thread of
   asyncio.to_thread *)

\* vault.py:403: the tasks whose path.write_text runs on a thread of the
\* event loop's default executor
WritesOnThreads == {t \in Tasks : task[t].pc = "write"}

\* the blocking file operations executing on threads
BlockingIO == Len(execRunning) + Cardinality(WritesOnThreads)

InitPool ==
    /\ InitCommon
    /\ files = [p \in 1..PoolFiles |-> OkFile(BulkText, 0)]
    /\ task = [t \in Tasks |-> Idle]
    /\ maxConc = MaxTasks
    /\ lastWrite = [p \in 1..PoolFiles |-> NoWrite]
    /\ expectAppend = [p \in 1..PoolFiles |-> BulkText]

NextPool ==
    \/ ExecStart
    \/ \E i \in 1..Len(execRunning) : ExecFinish(i)
    \/ \E t \in Tasks, c \in Contents : UpdateStart(t, 1, c, "append", None)
    \/ \E t \in Tasks : UpdateResume(t)
    \/ \E t \in Tasks : ThreadWrite(t)
    \/ \E t \in Tasks : UpdateFinish(t)
    \/ \E t \in Tasks : ListStart(t, "list")
    \/ \E t \in Tasks : ScanSpawn(t)
    \/ \E t \in Tasks : \E i \in 1..Len(task[t].child) : ChildResume(t, i)
    \/ \E t \in Tasks : ScanFinish(t)

SpecPool == InitPool /\ [][NextPool]_vars

----------------------------------------------------------------------------
(* MemoryManager.strengthen_relationship, called with no other call in
   flight: the two get_note calls, the change of the front matter and the
   update_note call run to completion *)

RelationshipsKey == <<"R","e","l","a","t","i","o","n","s","h","i","p","s">>

\* memory.py:109: f"#{predicate} [[{target_note.title}]]"
RelationshipStr(pred, title) ==
    <<"#">> \o pred \o <<" ", "[", "[">> \o title \o <<"]", "]">>

\* the front matter holds Relationships as a string, not as a list
HasScalarRelationships(fm) ==
    /\ "items" \in DOMAIN fm
    /\ \E it \in fm.items : it[1] = RelationshipsKey

\* memory.py:108: yaml_frontmatter.get("Relationships", []) of a front
\* matter without a scalar under that key
RelationshipsOf(fm) ==
    IF "Relationships" \in DOMAIN fm THEN fm.Relationships ELSE <<>>

\* memory.py:108-115: the front matter dict after the call changed it
Strengthened(fm, rel) ==
    LET old == RelationshipsOf(fm)
        new == IF \E i \in 1..Len(old) : old[i] = rel THEN old
               ELSE Append(old, rel)
    IN  [f \in DOMAIN fm \cup {"Relationships", "Date_modified"} |->
            IF f = "Relationships" THEN new
            ELSE IF f = "Date_modified" THEN now
            ELSE fm[f]]

\* the content get_note(p) reads, from self._note_cache nc or from the file
ContentSeen(nc, p) ==
    IF ~PathExists(p) THEN None
    ELSE IF Abs(p) \in DOMAIN nc THEN nc[Abs(p)]
    ELSE ReadText(p)

\* self._note_cache after get_note(p)
NoteCacheAfterGet(nc, p) ==
    IF ContentSeen(nc, p) = None THEN nc ELSE Put(nc, Abs(p), ContentSeen(nc, p))

\* self._metadata_cache after get_note(p)
MetadataCacheAfterGet(mc, nc, p) ==
    IF ContentSeen(nc, p) = None THEN mc
    ELSE MetadataCacheAfter(mc, p, ContentSeen(nc, p))

\* the note get_note(p) returns
NoteSeen(mc, nc, p) ==
    IF ContentSeen(nc, p) = None THEN NoNote
    ELSE MkNote(p, ContentSeen(nc, p), GetMetadata(mc, p, ContentSeen(nc, p)))

StrengthenRet(src, tgt, rel, result) ==
    [op |-> "strengthen", path |-> src, target |-> tgt, rel |-> rel,
     result |-> result]

Predicates == {<<"p">>}

\* memory.py:91-126
Strengthen(src, tgt, pred) ==
    /\ Active = {}
    /\ LET source_note == NoteSeen(metadataCache, noteCache, src)
           nc1 == NoteCacheAfterGet(NoteCacheAfterGet(noteCache, src), tgt)
           mc0 == MetadataCacheAfterGet(metadataCache, noteCache, src)
           target_note == NoteSeen(mc0, nc1, tgt)
           mc1 == MetadataCacheAfterGet(mc0, nc1, tgt)
           rel == RelationshipStr(pred, Title(tgt))
       IN  IF \/ source_note = NoNote
              \/ target_note = NoNote
              \/ HasScalarRelationships(source_note.metadata.yaml_frontmatter)
           THEN /\ ret' = StrengthenRet(src, tgt, rel, FALSE)
                /\ noteCache' = nc1
                /\ metadataCache' = mc1
                /\ fetchTime' = [k \in DOMAIN nc1 |->
                                    IF k \in DOMAIN fetchTime THEN fetchTime[k]
                                    ELSE now]
                /\ UNCHANGED <<files, listCache, lastWrite, expectAppend>>
           ELSE LET changed == [source_note.metadata EXCEPT
                                   !.yaml_frontmatter = Strengthened(@, rel)]
                    \* the dict changed is the one in self._metadata_cache
                    mc2 == Put(mc1, Abs(src), changed)
                    nc2 == Del(nc1, Rel(src))
                IN  /\ files' = [files EXCEPT
                                    ![src] = OkFile(source_note.content, now)]
                    /\ metadataCache' = Del(mc2, Rel(src))
                    /\ listCache' = InvalidatedList(Rel(src))
                    /\ noteCache' = nc2
                    /\ fetchTime' = [k \in DOMAIN nc2 |->
                                        IF k \in DOMAIN fetchTime
                                        THEN fetchTime[k] ELSE now]
                    /\ lastWrite' = [lastWrite EXCEPT ![src] =
                                        [op |-> "update",
                                         text |-> source_note.content]]
                    /\ expectAppend' = [expectAppend EXCEPT
                                           ![src] = source_note.content]
                    /\ ret' = StrengthenRet(src, tgt, rel, TRUE)
    /\ UNCHANGED <<now, listCacheTime, index, task, execQueue, execRunning,
                   execDone, maxConc, nWrites>>

----------------------------------------------------------------------------
(* MemoryManager.search_relevant_memories *)

\* the characters of titles in code point order
Alphabet ==
    <<"0", "1", "2", "3", "4", "5", "6", "7", "8", "9", "a", "b", "c", "d",
      "e", "f", "g", "h", "i", "j", "k", "l", "m", "n", "o", "p", "q", "r",
      "s", "t", "u", "v", "w", "x", "y", "z">>

CharRank(c) == CHOOSE i \in 1..Len(Alphabet) : Alphabet[i] = c

\* a < b for Python strings
RECURSIVE StrLess(_, _)
StrLess(a, b) ==
    IF b = <<>> THEN FALSE
    ELSE IF a = <<>> THEN TRUE
    ELSE IF Head(a) = Head(b) THEN StrLess(Tail(a), Tail(b))
    ELSE CharRank(Head(a)) < CharRank(Head(b))

\* sorted(relevant_memories, key=lambda x: x["title"]): stable
RECURSIVE InsertByTitle(_, _)
InsertByTitle(sorted, e) ==
    IF sorted = <<>> THEN <<e>>
    ELSE IF StrLess(e.title, Head(sorted).title)
    THEN <<e>> \o sorted
    ELSE <<Head(sorted)>> \o InsertByTitle(Tail(sorted), e)

RECURSIVE SortByTitle(_)
SortByTitle(es) ==
    IF es = <<>> THEN <<>>
    ELSE InsertByTitle(SortByTitle(Slice(es, 1, Len(es) - 1)), es[Len(es)])

\* memory.py:145
IsMemoryNote(n) == Contains(PathStr(n.path[2]), MemoryDir)

\* memory.py:147-150: the keys of memory_map, in insertion order
MemoryTitles(memory_notes) ==
    LET firsts == SelectSeq([i \in 1..Len(memory_notes) |-> i],
                     LAMBDA i : \A j \in 1..(i - 1) :
                                   memory_notes[j].title # memory_notes[i].title)
    IN  [k \in 1..Len(firsts) |-> memory_notes[firsts[k]].title]

\* memory.py:147: memory_map[title], the last note put under the title
MemoryMap(memory_notes, title) ==
    LET is == {i \in 1..Len(memory_notes) : memory_notes[i].title = title}
    IN  memory_notes[CHOOSE i \in is : \A j \in is : j <= i]

\* memory.py:142-168
RelevantMemories(notes, query, threshold) ==
    LET memory_notes == SelectSeq(notes, IsMemoryNote)
        titles == MemoryTitles(memory_notes)
        matches == Extract(query, titles, Len(titles))
        kept == SelectSeq(matches,
                          LAMBDA m : m.score >= threshold * ScoreUnit)
    IN  SortByTitle([i \in 1..Len(kept) |->
            LET note == MemoryMap(memory_notes, kept[i].title)
            IN  [title |-> kept[i].title,
                 path |-> PathStr(note.path[2]),
                 preview |-> Preview(note.content),
                 metadata |-> note.metadata.yaml_frontmatter]])

MemRet(query, threshold, notes) ==
    [op |-> "memory", query |-> query, threshold |-> threshold,
     listing |-> notes, result |-> RelevantMemories(notes, query, threshold)]

\* memory.py:143 with vault.py:240-273: the call takes the cached listing or
\* starts a scan
MemStart(t, query, threshold) ==
    /\ CanStart(t)
    /\ IF ListCacheFresh
       THEN /\ ret' = MemRet(query, threshold, listCache.notes)
            /\ UNCHANGED task
       ELSE /\ task' = [task EXCEPT ![t] =
                  [Idle EXCEPT !.op = "memory", !.pc = "spawn",
                               !.md_files = MdFiles,
                               !.child = [i \in 1..Len(MdFiles) |-> "wait"],
                               !.res = [i \in 1..Len(MdFiles) |-> NoNote],
                               !.snap = lastWrite, !.query = query,
                               !.threshold = threshold]]
            /\ ret' = NoRet
    /\ UNCHANGED <<files, now, noteCache, metadataCache, listCache,
                   listCacheTime, index, execQueue, execRunning, execDone,
                   maxConc, nWrites, fetchTime, lastWrite, expectAppend>>

\* vault.py:274-280 and memory.py:144-168: the listing is complete
MemFinish(t) ==
    /\ task[t].pc = "scan"
    /\ task[t].op = "memory"
    /\ \A i \in 1..Len(task[t].child) : task[t].child[i] = "done"
    /\ LET notes == SelectSeq(task[t].res, LAMBDA r : r # NoNote)
       IN  /\ listCache' = SomeList(notes)
           /\ listCacheTime' = now
           /\ ret' = MemRet(task[t].query, task[t].threshold, notes)
    /\ task' = [task EXCEPT ![t] = Idle]
    /\ UNCHANGED <<files, now, noteCache, metadataCache, index, execQueue,
                   execRunning, execDone, maxConc, nWrites, fetchTime,
                   lastWrite, expectAppend>>

MemQueries == {<<"a">>, <<"a", "b">>, <<"z">>}

RelScalarText ==
    Fence \o <<NL>> \o RelationshipsKey \o <<":", " ", "x", NL>> \o Fence
    \o <<NL, "b">>

MemoryText(p) ==
    CASE p = -3 -> RelScalarText
      [] p = -1 -> <<"-", "-", "-", NL, "k", ":", " ", "v", NL, "-", "-", "-", NL, "b">>
      [] OTHER -> TextA

MemoryVault == {-3, -2, -1, 1, 2}

InitMemory ==
    /\ InitCommon
    /\ files = [p \in MemoryVault |->
                   IF p = 2 THEN MissingFile ELSE OkFile(MemoryText(p), 0)]
    /\ task = [t \in Tasks |-> Idle]
    /\ maxConc = 1
    /\ lastWrite = [p \in MemoryVault |-> NoWrite]
    /\ expectAppend = [p \in MemoryVault |-> MemoryText(p)]

NextMemory ==
    \/ ExecStart
    \/ \E i \in 1..Len(execRunning) : ExecFinish(i)
    \/ \E t \in Tasks : ListStart(t, "list")
    \/ \E t \in Tasks : ScanSpawn(t)
    \/ \E t \in Tasks : \E i \in 1..Len(task[t].child) : ChildResume(t, i)
    \/ \E t \in Tasks : ScanFinish(t)
    \/ \E src \in MemoryVault, tgt \in MemoryVault, pred \in Predicates :
          Strengthen(src, tgt, pred)
    \/ \E t \in Tasks, q \in MemQueries, th \in Thresholds :
          MemStart(t, q, th)
    \/ \E t \in Tasks : MemFinish(t)

SpecMemory == InitMemory /\ [][NextMemory]_vars

----------------------------------------------------------------------------
(* Claims *)

NotePaths(notes) == {notes[i].path[2] : i \in 1..Len(notes)}

Readable == {p \in DOMAIN files : files[p].kind = "ok"}

\* C1: when update(path, ...) has returned true and nothing was written to
\* the path since, a get(path) that starts afterwards returns the content
\* that update wrote, never an older cached content.
C1_GetAfterUpdateIsFresh ==
    (ret.op = "get" /\ ret.expected.op = "update")
        => (ret.result # NoNote /\ ret.result.content = ret.expected.text)

\* C2: after successful update(path, c_i, mode='append') calls without a
\* heading, the file holds the content it had before them followed by
\* c_1, ..., c_n in call order, each on a new line.
C2_AppendsAccumulate ==
    (ret.op = "update" /\ ret.result /\ ret.mode = "append"
        /\ ret.heading = None)
        => files[ret.path].text = expectAppend[ret.path]

\* C3: when create or update has returned successfully, self._note_cache
\* holds no entry for the written path other than the content just written
\* (none at all after update) and the listing cache is dropped.
C3_WriteDropsCaches ==
    ((ret.op = "update" /\ ret.result) \/ (ret.op = "create" /\ ret.result # NoNote))
        => /\ ~listCache.set
           /\ \/ Abs(ret.path) \notin DOMAIN noteCache
              \/ (ret.op = "create" /\ noteCache[Abs(ret.path)] = ret.written)

\* C4: once create or update of a path has completed, a build_index that
\* is then run to completion leaves an index entry with the title of that
\* path and the content written, unless the path is in a skip directory.
C4_IndexHasMutatedNote ==
    ret.op = "build"
        => \A p \in DOMAIN files :
              (ret.expected[p] # NoWrite /\ ~ShouldSkipFile(p))
                  => \E i \in 1..Len(index) :
                        index[i] = <<Title(p), ret.expected[p].text>>

\* C5: a get that finds a self._note_cache entry stored CacheTTL seconds ago
\* or earlier does not serve it: it reads the file once and returns the
\* content the file has now.
C5_StaleEntryIsReread ==
    (ret.op = "get" /\ ret.age >= CacheTTL)
        => /\ ~ret.hit
           /\ ret.reads = 1
           /\ ret.result # NoNote
           /\ ret.result.content = files[ret.path].text

\* C6: in the state invalidate_cache() with no path returns in, the content
\* cache, the metadata cache and the listing cache are all empty.
C6_InvalidateAllClearsAll ==
    (ret.op = "invalidate" /\ ret.key = None)
        => /\ noteCache = Empty
           /\ metadataCache = Empty
           /\ ~listCache.set

\* C7: the note create_note returns has the content create_note wrote to
\* the file, also when the cache held an earlier content of the path.
C7_CreateReturnsWritten ==
    (ret.op = "create" /\ ret.result # NoNote)
        => ret.result.content = ret.written

\* C8: an update of a path whose file does not exist returns false and
\* changes neither the files nor the content, metadata and listing caches.
C8_UpdateMissingNoEffect ==
    [][(ret'.op = "update" /\ ~PathExists(ret'.path))
          => /\ ret'.result = FALSE
             /\ UNCHANGED <<files, noteCache, metadataCache, listCache,
                            listCacheTime>>]_vars

\* an update of a missing path has returned while all three caches hold data
C8_Witness ==
    /\ ret.op = "update"
    /\ ~PathExists(ret.path)
    /\ ret.result = FALSE
    /\ noteCache # Empty
    /\ metadataCache # Empty
    /\ listCache.set /\ listCache.notes # <<>>

\* C9: when some file of the vault cannot be read, list_all returns the
\* notes of exactly the files that can be read.
C9_ListIsReadableFiles ==
    (ret.op = "list" /\ \E p \in DOMAIN files : files[p].kind = "bad")
        => NotePaths(ret.result) = Readable

\* a directory scan returns notes for exactly the files it could read, and
\* none for a file that cannot be read
ScanOmitsOnlyUnreadable ==
    (ret.op \in {"list", "build"} /\ ret.scanned)
        => NotePaths(ret.result) = Range(ret.md_files) \cap Readable

\* the per-file loads in flight on behalf of all running listings
LoadsInFlight ==
    Cardinality(UNION {{<<t, i>> : i \in {k \in 1..Len(task[t].child) :
                                            task[t].child[k] = "read"}} :
                       t \in Tasks})

\* C10: at every moment at most 50 per-file loads are in flight on behalf
\* of bulk listing, over all list_all calls that are running.
C10_AtMostFiftyLoads == LoadsInFlight <= SemPermits

\* a get_all_notes call (list_all or build_index) starts a directory scan
ScanStarts ==
    \E t \in Tasks : task[t].op = "idle" /\ task'[t].op \in {"list", "build"}

\* C11: a listing call made while a cached listing is less than 30 s old
\* returns that listing without scanning and leaves the cache as it is; a
\* call made when the cached listing is 30 s old or older scans, and when
\* the scan completes the cached listing and its timestamp are replaced.
C11_ListingCachedForTTL ==
    [][/\ (ret'.op \in {"list", "build"} /\ ~ret'.scanned)
            => /\ listCache.set
               /\ now - listCacheTime < CacheTTL
               /\ ret'.result = listCache.notes
               /\ UNCHANGED <<listCache, listCacheTime>>
       /\ ScanStarts => ~(listCache.set /\ now - listCacheTime < CacheTTL)
       /\ (ret'.op \in {"list", "build"} /\ ret'.scanned)
            => /\ listCache' = SomeList(ret'.result)
               /\ listCacheTime' = now']_vars

\* a listing served from the cache inside the window, nothing written since
C11_Witness ==
    /\ ret.op = "list"
    /\ ~ret.scanned
    /\ ret.result # <<>>
    /\ nWrites = 0
    /\ now - listCacheTime < CacheTTL

\* the score of every indexed title against the query, in index order
Scored(idx, query) ==
    [i \in 1..Len(idx) |->
        [title |-> idx[i][1], score |-> PartialRatio(query, idx[i][1]),
         idx |-> i]]

\* the reference procedure: keep every indexed title whose score is at
\* least the threshold, then the first max_results of them in descending
\* score order
Reference(idx, query, threshold, max_results) ==
    LET passing == SelectSeq(Scored(idx, query),
                             LAMBDA m : m.score >= threshold * ScoreUnit)
        sorted == SortByScore(passing)
    IN  Slice(sorted, 1, Min(max_results, Len(sorted)))

\* C12: search returns exactly the titles and scores of the reference
\* procedure: every returned score is at least the threshold, the scores
\* descend, at most max_results results are returned, and when fewer than
\* max_results are returned no title scoring at least the threshold is left
\* out.
C12_SearchIsReference ==
    ret.op = "search" =>
        LET ref == Reference(index, ret.query, ret.threshold, ret.max_results)
            res == ret.result
        IN  /\ Len(res) = Len(ref)
            /\ \A i \in 1..Len(res) :
                  /\ res[i].title = ref[i].title
                  /\ res[i].score = ref[i].score
                  /\ ret.hits[i] = ref[i].idx
                  /\ res[i].score >= ret.threshold * ScoreUnit
            /\ \A i \in 1..(Len(res) - 1) : res[i].score >= res[i + 1].score
            /\ Len(res) <= ret.max_results
            /\ Len(res) < ret.max_results
                  => \A j \in 1..Len(index) :
                        PartialRatio(ret.query, index[j][1])
                              >= ret.threshold * ScoreUnit
                           => j \in Range(ret.hits)

\* a search cut at max_results, over an index that also has titles under
\* the threshold and a title whose score equals the threshold
C12_Witness ==
    /\ ret.op = "search"
    /\ ret.threshold = 100
    /\ ret.max_results = 2
    /\ Len(ret.result) = 2
    /\ \E j \in 1..Len(index) :
          /\ j \notin Range(ret.hits)
          /\ PartialRatio(ret.query, index[j][1]) >= ret.threshold * ScoreUnit
    /\ \E j \in 1..Len(index) :
          PartialRatio(ret.query, index[j][1]) < ret.threshold * ScoreUnit

\* C13: search on an empty index, built from an empty vault or never built,
\* returns an empty result and does not raise.
C13_EmptyIndexEmptyResult ==
    (ret.op = "search" /\ index = <<>>) => (~ret.raised /\ ret.result = <<>>)

\* a search on a SearchEngine whose build_index has never been run
C13_Witness ==
    /\ ret.op = "search"
    /\ index = <<>>
    /\ ~listCache.set
    /\ ret.result = <<>>
    /\ ret.max_results = DefaultMaxResults

\* C14: the preview of every search result is the note content itself when
\* the content has at most 200 characters, and its first 200 characters
\* followed by "..." (203 characters) when it has more.
C14_PreviewCutAt200 ==
    ret.op = "search" =>
        \A i \in 1..Len(ret.result) :
            LET content == index[ret.hits[i]][2]
                preview == ret.result[i].content
            IN  /\ Len(content) <= 200 => preview = content
                /\ Len(content) > 200
                      => /\ preview = Slice(content, 1, 200) \o <<".", ".", ".">>
                         /\ Len(preview) = 203

\* one search returning a note of exactly 200 characters and one of 201
C14_Witness ==
    /\ ret.op = "search"
    /\ \E i \in 1..Len(ret.result) :
          /\ Len(index[ret.hits[i]][2]) = 200
          /\ ret.result[i].content = index[ret.hits[i]][2]
    /\ \E i \in 1..Len(ret.result) :
          /\ Len(index[ret.hits[i]][2]) = 201
          /\ Len(ret.result[i].content) = 203

\* C15: when the index contains the title T, search(T, threshold=60)
\* returns at least one result whose score is 100, whatever the other
\* indexed titles are.
C15_ExactTitleScores100 ==
    (/\ ret.op = "search"
     /\ ret.threshold = DefaultThreshold
     /\ ret.max_results >= 1
     /\ \E j \in 1..Len(index) : index[j][1] = ret.query)
        => \E i \in 1..Len(ret.result) : ret.result[i].score = 100 * ScoreUnit

\* the searched title is behind more than max_results other titles
C15_Witness ==
    /\ ret.op = "search"
    /\ ret.threshold = DefaultThreshold
    /\ ret.max_results = DefaultMaxResults
    /\ Len(index) > DefaultMaxResults
    /\ \E j \in (DefaultMaxResults + 1)..Len(index) : index[j][1] = ret.query
    /\ \E i \in 1..Len(ret.result) : ret.result[i].score = 100 * ScoreUnit

\* the content has a front-matter block that contains "{{" or "{%"
HasTemplateBlock(content) ==
    /\ YamlClose(content) # 0
    /\ \/ Contains(YamlBlock(content), <<"{", "{">>)
       \/ Contains(YamlBlock(content), <<"{", "%">>)

\* C16: metadata extraction is total: for every path and content (no
\* front-matter, a mapping, template placeholders, unparseable front-matter,
\* a non-mapping, a failing stat) it returns a metadata structure and does
\* not raise.
C16_ExtractionIsTotal ==
    ret.op = "metadata" =>
        /\ ~ret.raised
        /\ DOMAIN ret.result = {"created", "modified", "tags", "links",
                                "backlinks", "yaml_frontmatter"}
        /\ ret.result.yaml_frontmatter.tag \in {"dict", "template", "raw"}

\* extraction of an unparseable front-matter on a path whose stat fails
C16_Witness ==
    /\ ret.op = "metadata"
    /\ ~PathExists(ret.path)
    /\ ret.content = BrokenText
    /\ ~ret.hit
    /\ ret.result = DefaultMetadata

\* C17: whenever the content handed to extraction has a front-matter block
\* containing "{{" or "{%", the returned yaml_frontmatter is exactly
\* {"_is_template": true}, whatever calls were made on the path before.
C17_TemplateIsMarked ==
    (ret.op = "metadata" /\ HasTemplateBlock(ret.content))
        => ret.result.yaml_frontmatter = [tag |-> "template"]

\* C18: for a fixed path and content and an unchanged filesystem, two
\* successive extraction calls return identical metadata, timestamps
\* included, also when the stat call fails.
C18_ExtractionIsIdempotent ==
    (/\ ret.op = "metadata"
     /\ ret.before.op = "metadata"
     /\ ret.before.path = ret.path
     /\ ret.before.content = ret.content)
        => ret.result = ret.before.result

\* the tags, links and front-matter of a Note are those of its own content
MetadataOfContent(n) ==
    /\ n.metadata.tags = ExtractTags(n.content)
    /\ n.metadata.links = ExtractLinks(n.content)
    /\ n.metadata.yaml_frontmatter = ParseFrontmatter(n.content)

HasHeadingLine(s, h) ==
    \E l \in Range(SplitLines(s)) :
        \E j \in 1..Len(l) :
            /\ \A m \in 1..j : l[m] = "#"
            /\ \E k \in (j + 1)..(Len(l) + 1) :
                  /\ \A m \in (j + 1)..(k - 1) : l[m] \in {" ", "\t"}
                  /\ OccursAt(LowerStr(l), LowerStr(h), k)

\* the section update_note appends for a heading that is not there
NewSection(h, content) ==
    <<NL, NL, "#", "#", " ">> \o h \o <<NL>> \o content \o <<NL>>

\* C20: update(path, content, heading=H) on an existing document without a
\* heading line matching H returns true and writes the previous content of
\* the file followed by a new "## H" section holding the content; the
\* existing text is unchanged.
C20_MissingHeadingAppendsSection ==
    [][\A t \in Tasks :
          (/\ task[t].op = "update"
           /\ task[t].heading # None
           /\ ~HasHeadingLine(files[task[t].path].text, task[t].heading))
             => /\ (task[t].pc = "write" /\ task'[t].pc = "wrote")
                      => /\ task'[t].wok
                         /\ files'[task[t].path].text
                               = files[task[t].path].text
                                    \o NewSection(task[t].heading,
                                                  task[t].content)
                /\ (task[t].pc = "wrote" /\ task'[t].op = "idle")
                      => ret'.result = TRUE]_vars

\* the lines of a document that are not blank
TextLines(s) == SelectSeq(SplitLines(s), LAMBDA l : ~IsBlank(l))

\* the line is a markdown heading whose text is h, ignoring case
IsHeadingLine(l, h) ==
    \E j \in 1..Len(l) :
        /\ \A m \in 1..j : l[m] = "#"
        /\ \E k \in (j + 1)..(Len(l) + 1) :
              /\ \A m \in (j + 1)..(k - 1) : l[m] \in {" ", "\t"}
              /\ LowerStr(From(l, k)) = LowerStr(h)

\* the first heading line of the lines ls with the text h, 0 if none
FirstHeadingLine(ls, h) ==
    IF \E i \in 1..Len(ls) : IsHeadingLine(ls[i], h)
    THEN CHOOSE i \in 1..Len(ls) :
            IsHeadingLine(ls[i], h) /\ \A k \in 1..(i - 1) : ~IsHeadingLine(ls[k], h)
    ELSE 0

\* C21: update(path, content, heading=H) on a document with a heading line
\* whose text matches H ignoring case writes the document with the content
\* right after that heading line and nowhere else, also when the heading is
\* the last line, and adds no second heading (blank lines are not counted).
C21_InsertsAfterHeadingLine ==
    [][\A t \in Tasks :
          (/\ task[t].op = "update"
           /\ task[t].heading # None
           /\ task[t].pc = "write"
           /\ task'[t].pc = "wrote"
           /\ FirstHeadingLine(TextLines(files[task[t].path].text),
                               task[t].heading) # 0)
             => LET ls == TextLines(files[task[t].path].text)
                    i == FirstHeadingLine(ls, task[t].heading)
                IN  /\ task'[t].wok
                    /\ TextLines(files'[task[t].path].text)
                          = Slice(ls, 1, i) \o TextLines(task[t].content)
                               \o From(ls, i + 1)]_vars

\* the text behind the front-matter block of a content that create_note
\* wrote with metadata: the body handed to create_note
BodyOf(full) == From(full, YamlClose(full) + 5)

\* C22: for a note written by create(path, body, metadata) with non-empty
\* metadata, the content of the Note returned by create, and of the Note
\* returned by a later get(path), is the body without the front-matter block.
C22_CreateRoundTrip ==
    /\ (ret.op = "create" /\ ret.result # NoNote /\ YamlClose(ret.written) # 0)
          => ret.result.content = BodyOf(ret.written)
    /\ (ret.op = "get" /\ ret.expected.op = "create"
          /\ YamlClose(ret.expected.text) # 0)
          => (ret.result # NoNote
              /\ ret.result.content = BodyOf(ret.expected.text))

\* what get returns for a path without a file
NotFoundOutcome == NoNote

\* C23: a get of a file that exists but cannot be read has an outcome the
\* caller can tell from that of a get of a file that does not exist.
C23_ReadErrorIsNotNotFound ==
    (ret.op = "get" /\ files[ret.path].kind = "bad")
        => ret.result # NotFoundOutcome

\* C24: after a get(path) or a list_all and an update(path, ...) that ran
\* concurrently have both completed, the cache holds no content of path
\* from before the update: a get(path) made then, with no call running,
\* returns the content the update wrote.
C24_NoStaleContentAfterRace ==
    (ret.op = "get" /\ ret.expected.op = "update" /\ Active = {})
        => /\ ret.result # NoNote
           /\ ret.result.content = ret.expected.text
           /\ ret.result.content = files[ret.path].text

\* the notes of a listing that build_index does not skip, in listing order
NotSkipped(notes) == SelectSeq(notes, LAMBDA n : ~ShouldSkipFile(n.path[2]))

\* C25: after build_index completes, the index holds exactly one
\* (title, content) pair for each non-skipped note of the listing it took,
\* in listing order, and nothing of an earlier build.
C25_IndexIsListingProjection ==
    ret.op = "build" =>
        /\ Len(index) = Len(NotSkipped(ret.result))
        /\ \A i \in 1..Len(index) :
              index[i] = <<NotSkipped(ret.result)[i].title,
                           NotSkipped(ret.result)[i].content>>

\* a second build, over a listing with a skipped note
C25_Witness ==
    /\ ret.op = "build"
    /\ ~ret.scanned
    /\ index # <<>>
    /\ Len(index) < Len(ret.result)

\* C26: at every moment at most 4 blocking file operations of the vault,
\* reads and writes together, are executing on worker threads.
C26_AtMostFourBlockingIO == BlockingIO <= MaxWorkers

\* the components of a path string
RECURSIVE PathParts(_)
PathParts(s) ==
    IF \E i \in 1..Len(s) : s[i] = "/"
    THEN LET i == CHOOSE k \in 1..Len(s) :
                      s[k] = "/" /\ \A m \in 1..(k-1) : s[m] # "/"
         IN  <<Slice(s, 1, i - 1)>> \o PathParts(From(s, i + 1))
    ELSE <<s>>

\* the path lies inside a directory named, up to case, as a skip directory
InSkipDir(p) ==
    LET parts == PathParts(PathStr(p))
    IN  \E i \in 1..(Len(parts) - 1) :
           \E tdir \in TemplateDirs : LowerStr(parts[i]) = LowerStr(tdir)

\* C27: build_index excludes a note if and only if its path lies inside
\* one of the skip directories; a note outside them is always indexed,
\* whatever its file name.
C27_SkipsExactlySkipDirs ==
    ret.op = "build" =>
        \A i \in 1..Len(ret.result) :
           (\E j \in 1..Len(index) :
               index[j] = <<ret.result[i].title, ret.result[i].content>>)
              <=> ~InSkipDir(ret.result[i].path[2])

\* the items of the block sequence under Relationships in the front matter
\* of a file's text, in order, without the quotes yaml.dump puts on them
Unquoted(v) ==
    IF Len(v) >= 2 /\ v[1] = "'" /\ v[Len(v)] = "'"
    THEN Slice(v, 2, Len(v) - 1) ELSE v

DiskRelationships(text) ==
    IF YamlClose(text) = 0 THEN <<>>
    ELSE LET lines == SplitLines(YamlBlock(text))
             keys == {i \in 1..Len(lines) : lines[i] = RelationshipsKey \o <<":">>}
         IN  IF keys = {} THEN <<>>
             ELSE LET k == CHOOSE i \in keys : TRUE
                      last == CHOOSE j \in k..Len(lines) :
                                 /\ \A m \in (k + 1)..j :
                                       OccursAt(lines[m], <<"-", " ">>, 1)
                                 /\ (j = Len(lines)
                                     \/ ~OccursAt(lines[j + 1], <<"-", " ">>, 1))
                  IN  [i \in 1..(last - k) |-> Unquoted(From(lines[k + i], 3))]

Occurrences(s, x) == Cardinality({i \in 1..Len(s) : s[i] = x})

\* C28: when strengthen_relationship returns true, the Relationships list
\* in the front matter of the source note on disk holds the relationship
\* exactly once and agrees with the cached metadata of the source.
C28_RelationshipPersistedOnce ==
    (ret.op = "strengthen" /\ ret.result) =>
        /\ Occurrences(DiskRelationships(files[ret.path].text), ret.rel) = 1
        /\ Abs(ret.path) \in DOMAIN metadataCache =>
              RelationshipsOf(metadataCache[Abs(ret.path)].yaml_frontmatter)
                 = DiskRelationships(files[ret.path].text)

\* C29: invalidate_cache(path) with a path removes from the cached listing
\* exactly the notes with that path and the metadata entry under that key;
\* the other listed notes, the listing timestamp, the content cache and the
\* other metadata entries stay as they are.
C29_InvalidatePathFrame ==
    [][(ret'.op = "invalidate" /\ ret'.key # None) =>
          /\ listCache'.set = listCache.set
          /\ listCache'.notes =
                SelectSeq(listCache.notes, LAMBDA n : n.path # ret'.key)
          /\ listCacheTime' = listCacheTime
          /\ noteCache' = noteCache
          /\ DOMAIN metadataCache' = (DOMAIN metadataCache) \ {ret'.key}
          /\ \A k \in DOMAIN metadataCache' :
                metadataCache'[k] = metadataCache[k]]_vars

\* invalidate_cache(path) has taken the note of the path out of a listing
\* that holds another note
C29_Witness ==
    /\ ret.op = "invalidate"
    /\ ret.key # None
    /\ listCache.set
    /\ listCache.notes # <<>>
    /\ Len(listCache.notes) < Cardinality(Readable)
    /\ \A i \in 1..Len(listCache.notes) : listCache.notes[i].path # ret.key
    /\ noteCache # Empty

\* the listed memory notes whose title reaches the threshold
Relevant(listing, query, threshold) ==
    {i \in 1..Len(listing) :
        /\ Contains(PathStr(listing[i].path[2]), MemoryDir)
        /\ PartialRatio(query, listing[i].title) >= threshold * ScoreUnit}

\* C30: search_relevant_memories returns, in ascending title order, exactly
\* one entry for each listed note whose path contains "memory/" and whose
\* title scores at least the threshold, also when two notes share a title.
C30_OneEntryPerRelevantNote ==
    ret.op = "memory" =>
        LET want == Relevant(ret.listing, ret.query, ret.threshold)
        IN  /\ Len(ret.result) = Cardinality(want)
            /\ \A i \in want :
                  Cardinality({k \in 1..Len(ret.result) :
                      /\ ret.result[k].path = PathStr(ret.listing[i].path[2])
                      /\ ret.result[k].title = ret.listing[i].title}) = 1
            /\ \A k \in 1..(Len(ret.result) - 1) :
                  ~StrLess(ret.result[k + 1].title, ret.result[k].title)

====
